---- MODULE Spec2Model ----
(***************************************************************************)
(* The WebSocket proxy session manager (webSocketProxyManager) and its     *)
(* HTTP execution bridge: the reconnecting-socket state machine, the       *)
(* keep-alive interval, and the translation of http_request commands into  *)
(* outbound messages.                                                      *)
(*                                                                         *)
(* The module-level `let` variables of the service are the VARIABLES; the  *)
(* browser objects the service creates (WebSocket objects, timeouts,       *)
(* intervals) are modelled by readyState, timeouts and intervals.  Every   *)
(* function of the service is an operator from a session record to a       *)
(* session record, so that a handler that calls other functions is the     *)
(* composition of their operators; an action applies one handler to the    *)
(* current session and stores the result.                                  *)
(***************************************************************************)
EXTENDS Integers, Sequences, FiniteSets, TLC

\* ---------------------------------------------------------------- bounds
MaxSockets == 2      \* WebSocket objects that exist (not yet collected) at once
MaxTimerIds == 3     \* timer ids the browser hands out before reusing a dead one
MaxFail == 6         \* the count of consecutive schedules saturates here
MaxCmds == 1         \* http_request commands in flight at once
MaxChunks == 2       \* body chunks read per streamed response
MaxParams == 2       \* query parameters of a command's URL

\* ------------------------------------------------------- program constants
PING_INTERVAL_MS == 25000
RECONNECT_INITIAL_DELAY_MS == 1000
RECONNECT_MAX_DELAY_MS == 30000
RECONNECT_JITTER_MS == 500

WS_CONNECTING == 0
WS_OPEN == 1
WS_CLOSING == 2
WS_CLOSED == 3

\* WebSocketProxyStatus
IDLE == "IDLE"
CONNECTING == "CONNECTING"
CONNECTED == "CONNECTED"
RECONNECTING == "RECONNECTING"
DISCONNECTED == "DISCONNECTED"
ERROR == "ERROR"
Statuses == {IDLE, CONNECTING, CONNECTED, RECONNECTING, DISCONNECTED, ERROR}

\* null for object references and timer ids (timer ids are positive)
Null == 0
\* the null / empty token: both are falsy in `if (!jwtToken)`
NoToken == ""
Tokens == {"jwtA", "jwtB"}

\* the functions a collaborator registers as the status observer, and null
Observers == {"cbA", "cbB"}
NoObserver == "null"

SocketIds == 1..MaxSockets
TimerIds == 1..MaxTimerIds
\* Math.random() * RECONNECT_JITTER_MS, sampled: the range is [0, 500)
Jitters == {0, 250, RECONNECT_JITTER_MS - 1}

VARIABLES
  socket,                 \* let socket: 0 (null) or the id of a WebSocket object
  currentStatus,
  onStatusChangeCallback, \* NoObserver or the observer registered
  pingIntervalId,         \* 0 (null) or an interval id
  reconnectTimeoutId,     \* 0 (null) or a timeout id
  currentReconnectDelay,
  explicitClose,
  currentJwtToken,
  readyState,             \* readyState of every WebSocket object; WS_CLOSED and
                          \* unreferenced = collected / never constructed
  timeouts,               \* ids of the timeouts pending in the browser
  intervals,              \* ids of the intervals live in the browser
  cmds,                   \* the handleHttpRequest invocations, by command slot
  hist                    \* what the last handler did (read by the properties only)

vars == <<socket, currentStatus, onStatusChangeCallback, pingIntervalId, reconnectTimeoutId,
          currentReconnectDelay, explicitClose, currentJwtToken, readyState,
          timeouts, intervals, cmds, hist>>

\* hist: changes   - the status changes made by the last handler, in order
\*       failCount - reconnects scheduled since the last successful open
\*       sched     - the last setTimeout of scheduleReconnect: its number in the
\*                   run of schedules, the delay before jitter, the timer delay
\*       period    - the last elapsed keep-alive period: the status during it
\*                   and the pings put on a transport in it
\*       op        - the handler that ran last
NoSched == [n |-> 0, base |-> 0, delay |-> 0]
NoPeriod == [status |-> "none", pings |-> 0]
\*       pre       - the session the handler started from (what the properties
\*                   compare the outcome with): its status, its delay, whether
\*                   a reconnect timeout was held, whether a transport existed
\*                   (connecting, open or closing)
\*       sends     - the sendToServer calls of the last bridge step, in order:
\*                   the message type and what became of the message
NoPre == [status |-> IDLE, delay |-> RECONNECT_INITIAL_DELAY_MS, timer |-> FALSE,
          exists |-> FALSE]
\*       disconnected - disconnect() has been called with status Connected,
\*                   Connecting or Reconnecting, and connect() has not been
\*                   called since
\*       calls     - the calls of the status observer made by the last
\*                   handler, in order: the function called, the status it
\*                   was given, the status before the updateStatus that called
\*       arg       - the argument of setOnStatusChange, when that ran last
InitHist == [changes |-> <<>>, failCount |-> 0, sched |-> NoSched,
             period |-> NoPeriod, op |-> "init", pre |-> NoPre, sends |-> <<>>,
             disconnected |-> FALSE, calls |-> <<>>, arg |-> NoObserver]

\* The session as one record: the service's variables and the browser objects
\* its functions act on.
Sess ==
  [socket |-> socket, currentStatus |-> currentStatus,
   onStatusChangeCallback |-> onStatusChangeCallback,
   pingIntervalId |-> pingIntervalId, reconnectTimeoutId |-> reconnectTimeoutId,
   currentReconnectDelay |-> currentReconnectDelay, explicitClose |-> explicitClose,
   currentJwtToken |-> currentJwtToken, readyState |-> readyState,
   timeouts |-> timeouts, intervals |-> intervals, hist |-> hist]

Min(a, b) == IF a < b THEN a ELSE b

IsLive(rs) == rs \in {WS_CONNECTING, WS_OPEN}

\* The transports created by the session that are connecting or open.
LiveSockets(S) == {s \in SocketIds : IsLive(S.readyState[s])}

\* A handler starts: the record of the previous handler is replaced.
Begin(S, op) ==
  [S EXCEPT !.hist = [changes |-> <<>>, failCount |-> S.hist.failCount,
                      sched |-> NoSched, period |-> NoPeriod, op |-> op,
                      sends |-> <<>>, calls |-> <<>>, arg |-> NoObserver,
                      disconnected |->
                        IF op \in {"connect", "connectThrows", "connectNoToken"}
                        THEN FALSE
                        ELSE IF op = "disconnect"
                             THEN \/ S.hist.disconnected
                                  \/ S.currentStatus \in
                                       {CONNECTED, CONNECTING, RECONNECTING}
                             ELSE S.hist.disconnected,
                      pre |-> [status |-> S.currentStatus,
                               delay |-> S.currentReconnectDelay,
                               timer |-> S.reconnectTimeoutId # Null,
                               exists |-> \E s \in SocketIds :
                                            S.readyState[s] # WS_CLOSED]]]

\* An id the browser has not handed to a timer that is still live or still held.
FreshTimerIds(S) ==
  TimerIds \ (S.timeouts \cup S.intervals \cup {S.pingIntervalId, S.reconnectTimeoutId})
FreshTimerId(S) == CHOOSE i \in FreshTimerIds(S) : \A j \in FreshTimerIds(S) : i <= j

\* A WebSocket object that is closed has no event left to deliver, and the
\* only reference to it, `socket`, is overwritten by the next `new WebSocket`:
\* its slot is free for that object.
FreeSockets(S) == {s \in SocketIds : S.readyState[s] = WS_CLOSED}
NewSocketId(S) == CHOOSE s \in FreeSockets(S) : \A r \in FreeSockets(S) : s <= r

\* updateStatus(newStatus, details): `details` is whether a detail string is given.
updateStatus(S, newStatus, details) ==
  IF S.currentStatus = newStatus /\ ~details
  THEN S
  ELSE [S EXCEPT !.currentStatus = newStatus,
                 !.hist.changes = IF S.currentStatus # newStatus
                                  THEN Append(@, <<S.currentStatus, newStatus>>)
                                  ELSE @,
                 !.hist.calls = IF S.onStatusChangeCallback # NoObserver
                                THEN Append(@, [cb |-> S.onStatusChangeCallback,
                                                status |-> newStatus,
                                                from |-> S.currentStatus])
                                ELSE @]

\* setOnStatusChange that registers an observer only when none is registered.
setOnStatusChange_KeepsFirst(S, callback) ==
  LET A == IF S.onStatusChangeCallback = NoObserver
           THEN [S EXCEPT !.onStatusChangeCallback = callback]
           ELSE S
  IN IF A.onStatusChangeCallback # NoObserver
     THEN [A EXCEPT !.hist.calls = Append(@, [cb |-> A.onStatusChangeCallback,
                                              status |-> A.currentStatus,
                                              from |-> A.currentStatus])]
     ELSE A

setOnStatusChange(S, callback) ==
  LET A == [S EXCEPT !.onStatusChangeCallback = callback]
  IN IF A.onStatusChangeCallback # NoObserver
     THEN [A EXCEPT !.hist.calls = Append(@, [cb |-> A.onStatusChangeCallback,
                                              status |-> A.currentStatus,
                                              from |-> A.currentStatus])]
     ELSE A

\* sendToServer that uses whatever transport of the session is open.
sendToServer_AnyOpen(S) ==
  IF \E s \in SocketIds : S.readyState[s] = WS_OPEN
  THEN CHOOSE s \in SocketIds : S.readyState[s] = WS_OPEN
  ELSE Null

\* sendToServer: the message goes on the transport `socket` refers to when that
\* transport is open, and is dropped otherwise.  The result is the id of the
\* transport the message was sent on, or Null when it was dropped.
sendToServer(S) ==
  IF S.socket # Null /\ S.readyState[S.socket] = WS_OPEN THEN S.socket ELSE Null

stopPing(S) ==
  IF S.pingIntervalId # Null
  THEN [S EXCEPT !.intervals = @ \ {S.pingIntervalId}, !.pingIntervalId = Null]
  ELSE S

startPing(S) ==
  LET T == stopPing(S)
      id == FreshTimerId(T)
  IN [T EXCEPT !.intervals = @ \cup {id}, !.pingIntervalId = id]

\* clearTimeout(reconnectTimeoutId), as scheduleReconnect does it: the variable
\* keeps the id until the new one is assigned.
clearReconnectTimeout(S) ==
  IF S.reconnectTimeoutId # Null
  THEN [S EXCEPT !.timeouts = @ \ {S.reconnectTimeoutId}]
  ELSE S

\* if (reconnectTimeoutId) { clearTimeout(reconnectTimeoutId); reconnectTimeoutId = null; }
cancelReconnect(S) ==
  [clearReconnectTimeout(S) EXCEPT !.reconnectTimeoutId = Null]

RECURSIVE Pow2(_)
Pow2(n) == IF n = 0 THEN 1 ELSE 2 * Pow2(n - 1)

\* The doubling with the ceiling applied before it instead of after it.
nextReconnectDelay_CeilingFirst(delay) == Min(delay, RECONNECT_MAX_DELAY_MS) * 2

\* Math.min(currentReconnectDelay * 2, RECONNECT_MAX_DELAY_MS)
nextReconnectDelay(delay) == Min(delay * 2, RECONNECT_MAX_DELAY_MS)

\* scheduleReconnect that gives up after three consecutive failures.
scheduleReconnect_Capped(S, jitter) ==
  IF S.explicitClose \/ S.currentJwtToken = NoToken
  THEN updateStatus(S, IDLE, TRUE)
  ELSE IF S.hist.failCount >= 3
       THEN updateStatus([clearReconnectTimeout(S) EXCEPT !.reconnectTimeoutId = Null],
                         ERROR, TRUE)
       ELSE LET A == clearReconnectTimeout(S)
                delayWithJitter == A.currentReconnectDelay + jitter
                B == updateStatus(A, RECONNECTING, TRUE)
                id == FreshTimerId(B)
                n == Min(B.hist.failCount + 1, MaxFail)
            IN [B EXCEPT !.timeouts = @ \cup {id},
                         !.reconnectTimeoutId = id,
                         !.currentReconnectDelay =
                           nextReconnectDelay(B.currentReconnectDelay),
                         !.hist.failCount = n,
                         !.hist.sched = [n |-> n, base |-> A.currentReconnectDelay,
                                         delay |-> delayWithJitter]]

\* scheduleReconnect without the clearTimeout of the timer it replaces.
scheduleReconnect_NoClear(S, jitter) ==
  IF S.explicitClose \/ S.currentJwtToken = NoToken
  THEN updateStatus(S, IDLE, TRUE)
  ELSE LET delayWithJitter == S.currentReconnectDelay + jitter
           B == updateStatus(S, RECONNECTING, TRUE)
           id == FreshTimerId(B)
           n == Min(B.hist.failCount + 1, MaxFail)
       IN [B EXCEPT !.timeouts = @ \cup {id},
                    !.reconnectTimeoutId = id,
                    !.currentReconnectDelay = nextReconnectDelay(B.currentReconnectDelay),
                    !.hist.failCount = n,
                    !.hist.sched = [n |-> n, base |-> S.currentReconnectDelay,
                                    delay |-> delayWithJitter]]

scheduleReconnect(S, jitter) ==
  IF S.explicitClose \/ S.currentJwtToken = NoToken
  THEN updateStatus(S, IDLE, TRUE)
  ELSE LET A == clearReconnectTimeout(S)
           delayWithJitter == A.currentReconnectDelay + jitter
           B == updateStatus(A, RECONNECTING, TRUE)
           id == FreshTimerId(B)
           n == Min(B.hist.failCount + 1, MaxFail)
       IN [B EXCEPT !.timeouts = @ \cup {id},
                    !.reconnectTimeoutId = id,
                    !.currentReconnectDelay = nextReconnectDelay(B.currentReconnectDelay),
                    !.hist.failCount = n,
                    !.hist.sched = [n |-> n, base |-> A.currentReconnectDelay,
                                    delay |-> delayWithJitter]]

\* connect that stores the token before it looks at it.
connect_StoresFirst(S, jwtToken, throws, jitter) ==
  LET A == [S EXCEPT !.currentJwtToken = jwtToken]
  IN IF jwtToken = NoToken
     THEN updateStatus(A, ERROR, TRUE)
     ELSE IF A.socket # Null /\ IsLive(A.readyState[A.socket])
          THEN A
          ELSE LET B == updateStatus([A EXCEPT !.explicitClose = FALSE],
                                     CONNECTING, FALSE)
               IN IF throws
                  THEN scheduleReconnect(updateStatus(B, ERROR, TRUE), jitter)
                  ELSE LET s == NewSocketId(B)
                       IN [B EXCEPT !.socket = s, !.readyState[s] = WS_CONNECTING]

\* connect(jwtToken); `throws` is whether `new WebSocket(wsUrl)` throws.
connect(S, jwtToken, throws, jitter) ==
  IF jwtToken = NoToken
  THEN updateStatus(S, ERROR, TRUE)
  ELSE LET A == [S EXCEPT !.currentJwtToken = jwtToken]
       IN IF A.socket # Null /\ IsLive(A.readyState[A.socket])
          THEN A
          ELSE LET B == updateStatus([A EXCEPT !.explicitClose = FALSE],
                                     CONNECTING, FALSE)
               IN IF throws
                  THEN scheduleReconnect(updateStatus(B, ERROR, TRUE), jitter)
                  ELSE LET s == NewSocketId(B)
                       IN [B EXCEPT !.socket = s, !.readyState[s] = WS_CONNECTING]

\* onSocketOpen without the reset of currentReconnectDelay.
onSocketOpen_NoReset(S) ==
  startPing(cancelReconnect(
    [updateStatus(S, CONNECTED, FALSE) EXCEPT !.hist.failCount = 0]))

onSocketOpen(S) ==
  LET A == updateStatus(S, CONNECTED, FALSE)
      B == [A EXCEPT !.currentReconnectDelay = RECONNECT_INITIAL_DELAY_MS,
                     !.hist.failCount = 0]
  IN startPing(cancelReconnect(B))

\* onSocketClose without the return on a pending reconnect timer.
onSocketClose_NoGuard(S, jitter) ==
  LET A == stopPing(S)
      B == IF A.explicitClose
           THEN [updateStatus(A, IDLE, TRUE) EXCEPT !.explicitClose = FALSE]
           ELSE scheduleReconnect(updateStatus(A, DISCONNECTED, TRUE), jitter)
  IN [B EXCEPT !.socket = Null]

onSocketClose(S, jitter) ==
  LET A == stopPing(S)
  IN IF A.reconnectTimeoutId # Null
     THEN A
     ELSE LET B == IF A.explicitClose
                   THEN [updateStatus(A, IDLE, TRUE) EXCEPT !.explicitClose = FALSE]
                   ELSE scheduleReconnect(updateStatus(A, DISCONNECTED, TRUE), jitter)
          IN [B EXCEPT !.socket = Null]

\* The callback scheduleReconnect hands to setTimeout.
reconnectTimeoutCallback(S, throws, jitter) ==
  LET A == [S EXCEPT !.reconnectTimeoutId = Null]
  IN IF A.currentJwtToken # NoToken
     THEN connect(A, A.currentJwtToken, throws, jitter)
     ELSE updateStatus(A, IDLE, TRUE)

\* The callback startPing hands to setInterval: one ping through sendToServer.
\* The result is the transport the ping went on (Null: dropped).
pingIntervalCallback(S) == sendToServer(S)

\* disconnect without the updateStatus of its `else` branch.
disconnect_NoIdle(S) ==
  LET A == [S EXCEPT !.explicitClose = TRUE, !.currentJwtToken = NoToken]
      C == stopPing(cancelReconnect(A))
      D == IF C.socket # Null
           THEN IF IsLive(C.readyState[C.socket])
                THEN [C EXCEPT !.readyState[C.socket] = WS_CLOSING]
                ELSE onSocketClose(C, 0)
           ELSE C
  IN [D EXCEPT !.socket = Null]

\* disconnect that leaves the reconnect timer pending.
disconnect_KeepsTimer(S) ==
  LET A == [S EXCEPT !.explicitClose = TRUE, !.currentJwtToken = NoToken]
      C == stopPing(A)
      D == IF C.socket # Null
           THEN IF IsLive(C.readyState[C.socket])
                THEN [C EXCEPT !.readyState[C.socket] = WS_CLOSING]
                ELSE onSocketClose(C, 0)
           ELSE updateStatus(C, IDLE, TRUE)
  IN [D EXCEPT !.socket = Null]

disconnect(S) ==
  LET A == [S EXCEPT !.explicitClose = TRUE, !.currentJwtToken = NoToken]
      C == stopPing(cancelReconnect(A))
      D == IF C.socket # Null
           THEN IF IsLive(C.readyState[C.socket])
                THEN [C EXCEPT !.readyState[C.socket] = WS_CLOSING]
                \* explicitClose is set and no timer is pending here, so the
                \* call cannot reach scheduleReconnect: its jitter is not drawn
                ELSE onSocketClose(C, 0)
           ELSE updateStatus(C, IDLE, TRUE)
  IN [D EXCEPT !.socket = Null]

\* ------------------------------------------------- the HTTP execution bridge
\* Bytes of an upstream body, over a UTF-8 alphabet that has a one-byte
\* character ("a"), the lead byte of a two-byte character ("L") and a
\* continuation byte ("C"); "e2" is the two-byte character L C decodes to and
\* "fffd" the replacement character.
Bytes == {"a", "L", "C"}
BodyChunks == {<<"a">>, <<"L">>, <<"C">>, <<"C", "L">>}
HttpStatuses == {200, 404}

\* TextDecoder.decode(value, {stream: true}) on one byte; `pending` is whether
\* the decoder holds a lead byte from before.
decodeByte(pending, b) ==
  IF pending
  THEN CASE b = "C" -> [text |-> <<"e2">>, pending |-> FALSE]
         [] b = "a" -> [text |-> <<"fffd", "a">>, pending |-> FALSE]
         [] OTHER   -> [text |-> <<"fffd">>, pending |-> TRUE]
  ELSE CASE b = "a" -> [text |-> <<"a">>, pending |-> FALSE]
         [] b = "L" -> [text |-> <<>>, pending |-> TRUE]
         [] OTHER   -> [text |-> <<"fffd">>, pending |-> FALSE]

RECURSIVE decode(_, _)
decode(pending, value) ==
  IF value = <<>>
  THEN [text |-> <<>>, pending |-> pending]
  ELSE LET d == decodeByte(pending, Head(value))
           r == decode(d.pending, Tail(value))
       IN [text |-> d.text \o r.text, pending |-> r.pending]

\* decoder.decode(): the end of the stream flushes a held lead byte.
decodeFlush(pending) == IF pending THEN <<"fffd">> ELSE <<>>

\* The method and url of a command.  A url is what the URL parser makes of
\* the string: whether `new URL(url)` accepts it (abs: it is absolute; a
\* relative reference makes the constructor throw), the segments of its path
\* (a last segment "" is a trailing slash) and the pieces of its query between
\* the "&", each a name, whether an "=" follows, and the text after the "=".
Methods == {"GET", "POST"}
Paths == {<<"v1beta", "models">>, <<"v1beta", "models", "">>,
          <<"api", "v1beta", "models">>, <<"v1beta", "models", "gemini-pro">>}
RawParams ==
  {[name |-> "key", sep |-> TRUE, value |-> "s3"],
   [name |-> "key", sep |-> FALSE, value |-> ""],
   [name |-> "alt", sep |-> FALSE, value |-> ""],
   [name |-> "q", sep |-> TRUE, value |-> "a%20b"],
   [name |-> "q", sep |-> TRUE, value |-> "b"]}
Queries == UNION {[1..n -> RawParams] : n \in 0..MaxParams}
Urls == [abs : BOOLEAN, path : Paths, query : Queries]
NoUrl == [abs |-> FALSE, path |-> <<>>, query |-> <<>>]

\* The application/x-www-form-urlencoded decoding and encoding of a value,
\* on the values of RawParams: %20 and + are both a space, and a space is
\* written +.
percentDecode(text) == IF text \in {"a%20b", "a+b"} THEN "a b" ELSE text
percentEncode(text) == IF text = "a b" THEN "a+b" ELSE text

\* parsedUrl.searchParams: the list of (name, value) pairs of the query
searchParams(query) ==
  [i \in 1..Len(query) |->
     [name |-> query[i].name, value |-> percentDecode(query[i].value)]]

\* pathname.endsWith('/' + suffix[1] + '/' + ... + suffix[n])
pathnameEndsWith(path, suffix) ==
  /\ Len(path) >= Len(suffix)
  /\ SubSeq(path, Len(path) - Len(suffix) + 1, Len(path)) = suffix

searchParamsHas(params, name) == \E i \in 1..Len(params) : params[i].name = name

IsNotKey(param) == param.name # "key"
\* searchParams.delete('key'): every pair of that name goes
searchParamsDelete(params) == SelectSeq(params, IsNotKey)

\* parsedUrl.toString() after the search parameters were changed: the query
\* is the serialization of the list, every pair written name=value
parsedUrlToString(url, params) ==
  [url EXCEPT !.query = [i \in 1..Len(params) |->
                           [name |-> params[i].name, sep |-> TRUE,
                            value |-> percentEncode(params[i].value)]]]

\* The url handed to fetch: lines 64-77.
rewrittenUrl(method, url) ==
  IF method = "GET"
  THEN IF ~url.abs
       THEN url      \* new URL(url) throws: the catch logs, url stays
       ELSE IF \/ pathnameEndsWith(url.path, <<"v1beta", "models">>)
               \/ pathnameEndsWith(url.path, <<"v1beta", "models", "">>)
            THEN IF searchParamsHas(searchParams(url.query), "key")
                 THEN parsedUrlToString(url, searchParamsDelete(searchParams(url.query)))
                 ELSE url
            ELSE url
  ELSE url

CmdIds == 1..MaxCmds
\* An invocation: pc is the await it is suspended at, conn the connection its
\* http_request came on (Null once that connection has closed), status the
\* response status, pending the decoder's state, reads the chunks
\* reader.read() has returned, out the messages passed to sendToServer, and
\* failedAt the await that rejected ("none": none did); method and url are
\* the command's, fetched the url passed to fetch.
FreeCmd == [pc |-> "free", conn |-> Null, status |-> 0, pending |-> FALSE,
            reads |-> <<>>, out |-> <<>>, failedAt |-> "none",
            method |-> "", url |-> NoUrl, fetched |-> NoUrl]

\* A step of handleHttpRequest works on B = [cmd, sends]: the invocation's
\* state and the sendToServer calls the step has made.
\* sendToServer(message) from the bridge: the message is appended to the
\* command's sequence of emitted messages, and the step records what became
\* of it: sent on the connection its http_request came on ("origin"), sent on
\* another connection ("other"), or dropped.
emit(S, B, type, data) ==
  LET on == sendToServer(S)
      via == IF on = Null THEN "dropped"
             ELSE IF on = B.cmd.conn THEN "origin" ELSE "other"
  IN [cmd |-> [B.cmd EXCEPT !.out = Append(@, [type |-> type, data |-> data])],
      sends |-> Append(B.sends, [type |-> type, via |-> via])]

\* handleHttpRequest up to `await fetch(url, fetchOptions)`.
handleHttpRequest(conn, method, url) ==
  [FreeCmd EXCEPT !.pc = "fetch", !.conn = conn, !.method = method, !.url = url,
                  !.fetched = rewrittenUrl(method, url)]

\* fetch resolved with a response: `streaming` is whether response.body has a
\* getReader.
onFetchResolved(S, B, streaming, status) ==
  IF streaming
  THEN LET E == emit(S, B, "stream_start", status)
       IN [E EXCEPT !.cmd.pc = "read", !.cmd.status = status]
  ELSE [B EXCEPT !.cmd.pc = "text", !.cmd.status = status]

\* The chunk decoded without {stream: true}: no state is carried over.
onReadValue_NoCarry(S, B, value) ==
  LET d == decode(FALSE, value)
      E == emit(S, B, "stream_chunk", d.text)
  IN [E EXCEPT !.cmd.pending = d.pending, !.cmd.reads = Append(@, value)]

\* reader.read() resolved with {done: false, value}.
onReadValue(S, B, value) ==
  LET d == decode(B.cmd.pending, value)
      E == emit(S, B, "stream_chunk", d.text)
  IN [E EXCEPT !.cmd.pending = d.pending, !.cmd.reads = Append(@, value)]

\* The end of the body without the stream_end message.
onReadDone_NoEnd(S, B) ==
  LET finalChunk == decodeFlush(B.cmd.pending)
      A == IF finalChunk # <<>> THEN emit(S, B, "stream_chunk", finalChunk) ELSE B
  IN [A EXCEPT !.cmd.pc = "done", !.cmd.pending = FALSE]

\* reader.read() resolved with {done: true}.
onReadDone(S, B) ==
  LET finalChunk == decodeFlush(B.cmd.pending)
      A == IF finalChunk # <<>> THEN emit(S, B, "stream_chunk", finalChunk) ELSE B
      E == emit(S, A, "stream_end", 0)
  IN [E EXCEPT !.cmd.pc = "done", !.cmd.pending = FALSE]

\* response.text() resolved.
onTextResolved(S, B) ==
  [emit(S, B, "http_response", B.cmd.status) EXCEPT !.cmd.pc = "done"]

\* A catch block that only logs.
onFetchError_Silent(S, B) == [B EXCEPT !.cmd.pc = "done"]

\* The catch block: what fetch, reader.read() or response.text() rejects with
\* is never a Response, so the code is FETCH_ERROR.
onFetchError(S, B) ==
  [emit(S, B, "error", "FETCH_ERROR") EXCEPT !.cmd.pc = "done"]

\* The kinds of frame that are not a command: a pong, a frame whose type is
\* not known, a frame JSON.parse throws on.
OtherFrames == {"pong", "unknown", "malformed"}

\* onSocketMessage that closes the connection on a frame it cannot parse.
onSocketMessage_ClosesOnError(S, kind) ==
  IF kind = "malformed" /\ S.socket # Null /\ IsLive(S.readyState[S.socket])
  THEN [S EXCEPT !.readyState[S.socket] = WS_CLOSING]
  ELSE S

\* onSocketMessage on a frame that is not a command (the http_request case
\* is ReceiveHttpRequest).
onSocketMessage(S, kind) ==
  CASE kind = "pong" -> S         \* case "pong": break
    [] kind = "unknown" -> S      \* default: console.warn
    [] kind = "malformed" -> S    \* catch: console.error

\* ----------------------------------------------------------------- actions
Commit(S) ==
  /\ socket' = S.socket
  /\ currentStatus' = S.currentStatus
  /\ onStatusChangeCallback' = S.onStatusChangeCallback
  /\ pingIntervalId' = S.pingIntervalId
  /\ reconnectTimeoutId' = S.reconnectTimeoutId
  /\ currentReconnectDelay' = S.currentReconnectDelay
  /\ explicitClose' = S.explicitClose
  /\ currentJwtToken' = S.currentJwtToken
  /\ readyState' = S.readyState
  /\ timeouts' = S.timeouts
  /\ intervals' = S.intervals
  /\ hist' = S.hist

\* connect(jwtToken) gets as far as `new WebSocket`.
Constructs(S, jwtToken) ==
  jwtToken # NoToken /\ ~(S.socket # Null /\ IsLive(S.readyState[S.socket]))

\* setTimeout / setInterval have an id to hand out, and `new WebSocket`, when
\* connect(jwtToken) reaches it, an object.
CanSetTimer(S) == FreshTimerIds(S) # {}
CanConnect(S, jwtToken) ==
  CanSetTimer(S) /\ (Constructs(S, jwtToken) => FreeSockets(S) # {})

Init ==
  /\ socket = Null
  /\ currentStatus = IDLE
  /\ onStatusChangeCallback = NoObserver
  /\ pingIntervalId = Null
  /\ reconnectTimeoutId = Null
  /\ currentReconnectDelay = RECONNECT_INITIAL_DELAY_MS
  /\ explicitClose = FALSE
  /\ currentJwtToken = NoToken
  /\ readyState = [s \in SocketIds |-> WS_CLOSED]
  /\ timeouts = {}
  /\ intervals = {}
  /\ cmds = [c \in CmdIds |-> FreeCmd]
  /\ hist = InitHist

\* webSocketProxyManager.connect(jwtToken) with a token.
Connect(jwtToken) ==
  /\ CanConnect(Sess, jwtToken)
  /\ Commit(connect(Begin(Sess, "connect"), jwtToken, FALSE, 0))
  /\ UNCHANGED cmds

\* connect with a token, `new WebSocket` throwing.
ConnectThrows(jwtToken, jitter) ==
  /\ CanSetTimer(Sess)
  /\ Constructs(Sess, jwtToken)
  /\ Commit(connect(Begin(Sess, "connectThrows"), jwtToken, TRUE, jitter))
  /\ UNCHANGED cmds

\* connect with an empty or missing token.
ConnectNoToken ==
  /\ Commit(connect(Begin(Sess, "connectNoToken"), NoToken, FALSE, 0))
  /\ UNCHANGED cmds

Disconnect ==
  /\ Commit(disconnect(Begin(Sess, "disconnect")))
  /\ UNCHANGED cmds

\* webSocketProxyManager.setOnStatusChange(callback)
SetOnStatusChange(callback) ==
  /\ Commit(setOnStatusChange(
              [Begin(Sess, "setOnStatusChange") EXCEPT !.hist.arg = callback],
              callback))
  /\ UNCHANGED cmds

\* The transport s opens: readyState becomes OPEN and socket.onopen runs.
SocketOpens(s) ==
  /\ readyState[s] = WS_CONNECTING
  /\ CanSetTimer(Sess)
  /\ Commit(onSocketOpen([Begin(Sess, "open") EXCEPT !.readyState[s] = WS_OPEN]))
  /\ UNCHANGED cmds

\* The peer starts the closing handshake on the open transport s: readyState
\* becomes CLOSING; no handler runs.
SocketStartsClosing(s) ==
  /\ readyState[s] = WS_OPEN
  /\ Commit([Begin(Sess, "closing") EXCEPT !.readyState[s] = WS_CLOSING])
  /\ UNCHANGED cmds

\* The transport s closes (a failed attempt, a lost connection or the end of
\* a closing handshake): readyState becomes CLOSED and socket.onclose runs.
SocketCloses(s, jitter) ==
  /\ readyState[s] \in {WS_CONNECTING, WS_OPEN, WS_CLOSING}
  /\ CanSetTimer(Sess)
  /\ Commit(onSocketClose([Begin(Sess, "close") EXCEPT !.readyState[s] = WS_CLOSED],
                          jitter))
  /\ cmds' = [c \in CmdIds |->
                IF cmds[c].conn = s THEN [cmds[c] EXCEPT !.conn = Null] ELSE cmds[c]]

\* The reconnect timeout t fires.
ReconnectTimerFires(t, throws, jitter) ==
  /\ t \in timeouts
  /\ CanConnect(Sess, currentJwtToken)
  /\ throws => Constructs(Sess, currentJwtToken)
  /\ Commit(reconnectTimeoutCallback(
              [Begin(Sess, "timer") EXCEPT !.timeouts = @ \ {t}], throws, jitter))
  /\ UNCHANGED cmds

\* One keep-alive period (PING_INTERVAL_MS) passes: every live interval runs
\* its callback once.
KeepAlivePeriodElapses ==
  /\ hist' = [Begin(Sess, "period").hist EXCEPT
                !.period = [status |-> currentStatus,
                            pings |-> Cardinality({i \in intervals :
                                                     pingIntervalCallback(Sess) # Null})]]
  /\ UNCHANGED <<socket, currentStatus, onStatusChangeCallback, pingIntervalId,
                 reconnectTimeoutId, currentReconnectDelay, explicitClose,
                 currentJwtToken, readyState, timeouts, intervals, cmds>>

\* A step of the invocation c: B' is what the step makes of [cmd, sends].
BridgeStep(c, B) ==
  /\ cmds' = [cmds EXCEPT ![c] = B.cmd]
  /\ hist' = [Begin(Sess, "bridge").hist EXCEPT !.sends = B.sends]
  /\ UNCHANGED <<socket, currentStatus, onStatusChangeCallback, pingIntervalId,
                 reconnectTimeoutId, currentReconnectDelay, explicitClose,
                 currentJwtToken, readyState, timeouts, intervals>>

Invocation(c) == [cmd |-> cmds[c], sends |-> <<>>]

\* onSocketMessage with an http_request frame on the open transport s.
ReceiveHttpRequest(s, c, method, url) ==
  /\ readyState[s] = WS_OPEN
  /\ cmds[c].pc \in {"free", "done"}
  /\ BridgeStep(c, [cmd |-> handleHttpRequest(s, method, url), sends |-> <<>>])

\* onSocketMessage with a pong, a frame of unknown type or an unparseable frame.
ReceiveOther(s, kind) ==
  /\ readyState[s] = WS_OPEN
  /\ Commit(onSocketMessage(Begin(Sess, kind), kind))
  /\ UNCHANGED cmds

FetchResolves(c, streaming, status) ==
  /\ cmds[c].pc = "fetch"
  /\ BridgeStep(c, onFetchResolved(Sess, Invocation(c), streaming, status))

ReadResolves(c, value) ==
  /\ cmds[c].pc = "read"
  /\ Len(cmds[c].reads) < MaxChunks
  /\ BridgeStep(c, onReadValue(Sess, Invocation(c), value))

ReadDone(c) ==
  /\ cmds[c].pc = "read"
  /\ BridgeStep(c, onReadDone(Sess, Invocation(c)))

TextResolves(c) ==
  /\ cmds[c].pc = "text"
  /\ BridgeStep(c, onTextResolved(Sess, Invocation(c)))

\* fetch, reader.read() or response.text() rejects: a network failure.
Rejects(c) ==
  /\ cmds[c].pc \in {"fetch", "read", "text"}
  /\ BridgeStep(c, [onFetchError(Sess, Invocation(c)) EXCEPT
                      !.cmd.failedAt = cmds[c].pc])

\* The session: every call of the manager's interface, every event of a
\* transport it created, every timer it set, every frame that is not a command.
Next ==
  \/ \E tok \in Tokens : Connect(tok)
  \/ \E tok \in Tokens, j \in Jitters : ConnectThrows(tok, j)
  \/ ConnectNoToken
  \/ Disconnect
  \/ \E s \in SocketIds : SocketOpens(s)
  \/ \E s \in SocketIds : SocketStartsClosing(s)
  \/ \E s \in SocketIds, j \in Jitters : SocketCloses(s, j)
  \/ \E t \in TimerIds, th \in BOOLEAN, j \in Jitters : ReconnectTimerFires(t, th, j)
  \/ KeepAlivePeriodElapses
  \/ \E s \in SocketIds, k \in OtherFrames : ReceiveOther(s, k)

Spec == Init /\ [][Next]_vars

\* The session and its status observer: the calls of the interface, the
\* events of the transports and the reconnect timer, which are what changes
\* the status, and the registration of an observer.
NextObserver ==
  \/ \E cb \in Observers \cup {NoObserver} : SetOnStatusChange(cb)
  \/ Connect("jwtA")
  \/ ConnectThrows("jwtA", 0)
  \/ ConnectNoToken
  \/ Disconnect
  \/ \E s \in SocketIds : SocketOpens(s)
  \/ \E s \in SocketIds : SocketCloses(s, 0)
  \/ \E t \in TimerIds : ReconnectTimerFires(t, FALSE, 0)

SpecObserver == Init /\ [][NextObserver]_vars

\* A command to generate content: its url is not one the bridge rewrites.
GenerateUrl == [abs |-> TRUE, path |-> <<"v1beta", "models", "gemini-pro">>,
                query |-> << [name |-> "key", sep |-> TRUE, value |-> "s3"] >>]

\* The session under the browser's scheduling: a timeout that is pending
\* fires, and a transport that is connecting or closing gets its open or
\* close event; an open transport may stay open, and the calls of the
\* interface may or may not come.
NextReconnect ==
  \/ Connect("jwtA")
  \/ ConnectThrows("jwtA", 0)
  \/ ConnectNoToken
  \/ Disconnect
  \/ \E s \in SocketIds : SocketOpens(s)
  \/ \E s \in SocketIds : SocketStartsClosing(s)
  \/ \E s \in SocketIds : SocketCloses(s, 0)
  \/ \E t \in TimerIds, th \in BOOLEAN : ReconnectTimerFires(t, th, 0)

\* What the browser does by itself: the pending timeout fires, a connecting
\* transport opens or fails, a closing transport closes.
Scheduled ==
  \/ \E t \in TimerIds, th \in BOOLEAN : ReconnectTimerFires(t, th, 0)
  \/ \E s \in SocketIds :
       readyState[s] # WS_OPEN /\ (SocketOpens(s) \/ SocketCloses(s, 0))
\* ENABLED <<Scheduled>>_vars, from the guards of its actions
ScheduledEnabled ==
  \/ timeouts # {} /\ CanConnect(Sess, currentJwtToken)
  \/ /\ \E s \in SocketIds : readyState[s] \in {WS_CONNECTING, WS_CLOSING}
     /\ CanSetTimer(Sess)
\* A step of the timer's callback, of onSocketOpen or of onSocketClose: every
\* step of Scheduled is one.
ScheduledStep == hist'.op \in {"timer", "open", "close"}

\* The event loop is weakly fair to Scheduled.  The condition is
\* WF_vars(Scheduled) with its two halves written out, <>[]ENABLED as
\* ScheduledEnabled and the step as ScheduledStep (which also counts the
\* close of an open transport, so it is if anything the weaker assumption).
EventLoopIsFair ==
  []<>(~ScheduledEnabled) \/ []<><<ScheduledStep>>_vars

SpecReconnect ==
  /\ Init
  /\ [][NextReconnect]_vars
  /\ EventLoopIsFair

\* The bridge: the commands that arrive on an open connection, each
\* invocation of handleHttpRequest advancing on its own.
NextBridge ==
  \/ Connect("jwtA")
  \/ \E s \in SocketIds : SocketOpens(s)
  \/ \E s \in SocketIds, c \in CmdIds : ReceiveHttpRequest(s, c, "POST", GenerateUrl)
  \/ \E c \in CmdIds, st \in BOOLEAN, h \in HttpStatuses : FetchResolves(c, st, h)
  \/ \E c \in CmdIds, v \in BodyChunks : ReadResolves(c, v)
  \/ \E c \in CmdIds : ReadDone(c)
  \/ \E c \in CmdIds : TextResolves(c)
  \/ \E c \in CmdIds : Rejects(c)

SpecBridge == Init /\ [][NextBridge]_vars

\* The bridge on every method and url, each command answered with a buffered
\* response or failing.
NextUrl ==
  \/ Connect("jwtA")
  \/ \E s \in SocketIds : SocketOpens(s)
  \/ \E s \in SocketIds, c \in CmdIds, m \in Methods, u \in Urls :
       ReceiveHttpRequest(s, c, m, u)
  \/ \E c \in CmdIds, h \in HttpStatuses : FetchResolves(c, FALSE, h)
  \/ \E c \in CmdIds : TextResolves(c)
  \/ \E c \in CmdIds : Rejects(c)

SpecUrl == Init /\ [][NextUrl]_vars

\* The bridge while the connection comes and goes: commands arrive on an open
\* connection, their invocations advance, and meanwhile the connection is
\* lost, closed by disconnect() and made again by connect() or the timer (every
\* attempt to connect succeeds, unless disconnect() ends it).
NextInFlight ==
  \/ Connect("jwtA")
  \/ Disconnect
  \/ \E s \in SocketIds : SocketOpens(s)
  \/ \E s \in SocketIds : readyState[s] # WS_CONNECTING /\ SocketCloses(s, 0)
  \/ \E t \in TimerIds : ReconnectTimerFires(t, FALSE, 0)
  \/ \E s \in SocketIds, c \in CmdIds : ReceiveHttpRequest(s, c, "POST", GenerateUrl)
  \/ \E c \in CmdIds, st \in BOOLEAN : FetchResolves(c, st, 200)
  \/ \E c \in CmdIds : cmds[c].reads = <<>> /\ ReadResolves(c, <<"a">>)
  \/ \E c \in CmdIds : ReadDone(c)
  \/ \E c \in CmdIds : TextResolves(c)
  \/ \E c \in CmdIds : cmds[c].pc = "fetch" /\ Rejects(c)

SpecInFlight == Init /\ [][NextInFlight]_vars

\* ------------------------------------------------------------ properties
KeepAliveRunning == pingIntervalId # Null /\ pingIntervalId \in intervals

\* C1: in every reachable state at most one transport created by the session
\* is live (connecting or open).
C1_AtMostOneLiveTransport == Cardinality(LiveSockets(Sess)) <= 1

\* C2: in every reachable state the keep-alive timer is running if and only
\* if status is Connected.
C2_KeepAliveIffConnected == KeepAliveRunning <=> currentStatus = CONNECTED

\* The changes of status of the section 4.1 table, as (from, to) pairs.  A
\* pair is allowed whatever event made it, and so are the pairs the table's
\* side effects give: the reconnect that a construction failure schedules or
\* is refused (Error to Reconnecting or Idle), and disconnect() with no
\* transport (Error to Idle).  A change outside this set is in the table under
\* no reading of it.
TransitionTable ==
  ({IDLE, ERROR, DISCONNECTED} \X {CONNECTING})
    \cup (Statuses \X {ERROR})
    \cup {<<CONNECTING, CONNECTED>>}
    \cup ({CONNECTED, CONNECTING} \X {IDLE, DISCONNECTED})
    \cup ({DISCONNECTED, ERROR} \X {RECONNECTING, IDLE})
    \cup ({RECONNECTING} \X {CONNECTING, IDLE})

\* C3: every change of status is a transition of the section 4.1 table.
C3_OnlyTableTransitions ==
  \A i \in 1..Len(hist.changes) : hist.changes[i] \in TransitionTable

\* C7: after every successful transport open, reconnectDelay is the floor
\* value and no reconnect timer is pending.
C7_OpenResetsBackoff ==
  hist.op = "open" =>
    /\ currentReconnectDelay = RECONNECT_INITIAL_DELAY_MS
    /\ reconnectTimeoutId = Null
    /\ timeouts = {}

\* An open that found the delay raised by earlier failures and a reconnect
\* timer pending.
C7_Witness ==
  /\ hist.op = "open"
  /\ hist.pre.delay = RECONNECT_MAX_DELAY_MS
  /\ hist.pre.timer

\* C8: the n-th reconnect scheduled since the last successful open has the
\* base delay min(floor * 2^(n-1), ceiling), its timer delay lies in
\* [base, base + 500), and reconnectDelay stays within [floor, ceiling].
C8_BackoffSchedule ==
  /\ currentReconnectDelay >= RECONNECT_INITIAL_DELAY_MS
  /\ currentReconnectDelay <= RECONNECT_MAX_DELAY_MS
  /\ hist.sched.n # 0 =>
       /\ hist.sched.base =
            Min(RECONNECT_INITIAL_DELAY_MS * Pow2(hist.sched.n - 1),
                RECONNECT_MAX_DELAY_MS)
       /\ hist.sched.delay >= hist.sched.base
       /\ hist.sched.delay < hist.sched.base + RECONNECT_JITTER_MS

\* The sixth consecutive schedule, whose doubled delay is cut at the ceiling.
C8_Witness ==
  /\ hist.sched.n = 6
  /\ hist.sched.base = RECONNECT_MAX_DELAY_MS
  /\ hist.sched.delay > hist.sched.base

\* C9: in a keep-alive period with status Connected exactly one ping is sent
\* on the transport, and in a period with any other status none is.
C9_OnePingPerPeriodIffConnected ==
  hist.op = "period" =>
    hist.period.pings = (IF hist.period.status = CONNECTED THEN 1 ELSE 0)

\* C10: disconnect() called when no transport exists leaves status Idle and
\* opens no transport.
C10_DisconnectWithoutTransport ==
  (hist.op = "disconnect" /\ ~hist.pre.exists) =>
    /\ currentStatus = IDLE
    /\ socket = Null
    /\ \A s \in SocketIds : readyState[s] = WS_CLOSED
    /\ timeouts = {}

\* disconnect() called while a reconnect was pending and no transport existed.
C10_Witness ==
  /\ hist.op = "disconnect"
  /\ ~hist.pre.exists
  /\ hist.pre.status = RECONNECTING
  /\ hist.pre.timer
  /\ currentStatus = IDLE

C12_DisconnectIsFinal ==
  hist.disconnected =>
    /\ reconnectTimeoutId = Null /\ timeouts = {}
    /\ pingIntervalId = Null /\ intervals = {}
    /\ hist.sched = NoSched
    /\ hist.op # "open"
    /\ \A i \in 1..Len(hist.changes) :
         hist.changes[i][2] \notin {CONNECTED, CONNECTING, RECONNECTING}

\* C14: a frame that cannot be parsed, a frame of unrecognized type and a
\* pong leave the whole session state unchanged (status, socket, token,
\* explicit-close flag, reconnectDelay, both timers), emit no outbound message
\* and do not close the connection.
C14_OtherFramesChangeNothing ==
  [][hist'.op \in OtherFrames =>
       /\ UNCHANGED <<socket, currentStatus, currentJwtToken, explicitClose,
                      onStatusChangeCallback, currentReconnectDelay, reconnectTimeoutId, pingIntervalId,
                      timeouts, intervals, readyState, cmds>>
       /\ hist'.sends = <<>>
       /\ hist'.changes = <<>>]_vars

\* An unparseable frame received on the open connection.
C14_Witness ==
  /\ hist.op = "malformed"
  /\ currentStatus = CONNECTED
  /\ socket # Null /\ readyState[socket] = WS_OPEN
  /\ KeepAliveRunning

IsChange(call) == call.from # call.status
\* the changes of status among the calls of the observer, as (from, to) pairs
ReportedChanges(calls) ==
  LET chg == SelectSeq(calls, IsChange)
  IN [i \in 1..Len(chg) |-> <<chg[i].from, chg[i].status>>]

\* C15: setOnStatusChange(cb) replaces the registered observer and calls cb
\* once with the current status; every change of status a handler makes is
\* reported, in order, to the observer registered last and to no other, and
\* to no one when the last registration was setOnStatusChange(null).
C15_SingleObserver ==
  /\ \A i \in 1..Len(hist.calls) : hist.calls[i].cb = onStatusChangeCallback
  /\ onStatusChangeCallback = NoObserver => hist.calls = <<>>
  /\ (onStatusChangeCallback # NoObserver /\ hist.op # "setOnStatusChange") =>
       ReportedChanges(hist.calls) = hist.changes
  /\ hist.op = "setOnStatusChange" =>
       /\ onStatusChangeCallback = hist.arg
       /\ currentStatus = hist.pre.status
       /\ hist.arg # NoObserver =>
            hist.calls = << [cb |-> hist.arg, status |-> currentStatus,
                             from |-> currentStatus] >>

\* A close event whose two changes of status (Connected to Disconnected to
\* Reconnecting) went to the observer that replaced an earlier one.
C15_Witness ==
  /\ onStatusChangeCallback = "cbB"
  /\ hist.op = "close"
  /\ hist.changes = << <<CONNECTED, DISCONNECTED>>, <<DISCONNECTED, RECONNECTING>> >>
  /\ Len(hist.calls) = 2

\* C17: in every reachable state the socket handle is null whenever status is
\* not Connected and not Connecting.
C17_SocketOnlyWhileConnecting ==
  currentStatus \notin {CONNECTED, CONNECTING} => socket = Null

\* C18: in every reachable state at most one reconnect timer is pending and
\* at most one keep-alive timer is live, and a pending or live timer is the
\* one the session holds: a timer that was replaced has been cancelled, so
\* its callback cannot run.
C18_AtMostOneTimerEach ==
  /\ Cardinality(timeouts) <= 1
  /\ Cardinality(intervals) <= 1
  /\ timeouts \subseteq {reconnectTimeoutId}
  /\ intervals \subseteq {pingIntervalId}

\* A reconnect scheduled while a reconnect timer was pending: the new timer
\* is the only one left.
C18_Witness ==
  /\ hist.op = "connectThrows"
  /\ hist.pre.timer
  /\ hist.sched.n # 0
  /\ timeouts = {reconnectTimeoutId}

\* A close event or a failure of `new WebSocket` (in connect() or in the
\* timer's callback) has left the session without a connection, with a token
\* stored.
Failed ==
  /\ hist.op \in {"close", "connectThrows", "timer"}
  /\ currentStatus \in {DISCONNECTED, RECONNECTING, ERROR}
  /\ currentJwtToken # NoToken
\* An open attempt is under way or was made by the last handler, or the
\* session is connected.
Attempted ==
  \/ currentStatus \in {CONNECTING, CONNECTED}
  \/ \E i \in 1..Len(hist.changes) : hist.changes[i][2] = CONNECTING

\* The session is in Disconnected, Reconnecting, Error or Connecting with a
\* token stored, no reconnect timer is pending and no transport is live.
Stalled ==
  /\ currentStatus \in {DISCONNECTED, RECONNECTING, ERROR, CONNECTING}
  /\ currentJwtToken # NoToken
  /\ timeouts = {}
  /\ LiveSockets(Sess) = {}

\* C19: with a token stored, a session in Disconnected, Reconnecting, Error or
\* Connecting always has a reconnect timer pending or a transport whose open
\* or close event is still to come, and it never stays forever without a
\* pending timer or a live transport; after a failure, unless disconnect()
\* is called, a new open attempt is made, however many attempts have failed.
C19_ReconnectsForever ==
  /\ []((currentStatus \in {DISCONNECTED, RECONNECTING, ERROR, CONNECTING}
          /\ currentJwtToken # NoToken)
        => (timeouts # {} \/ \E s \in SocketIds : readyState[s] # WS_CLOSED))
  /\ []<>(~Stalled)
  /\ (Failed ~> (Attempted \/ currentJwtToken = NoToken))

\* The reconnect timer fired, the attempt failed in the constructor, and a
\* reconnect was scheduled once more after MaxFail consecutive failures.
C19_Witness ==
  /\ hist.op = "timer"
  /\ hist.failCount = MaxFail
  /\ hist.sched.n = MaxFail
  /\ currentStatus = RECONNECTING
  /\ timeouts = {reconnectTimeoutId}
  /\ \E i \in 1..Len(hist.changes) : hist.changes[i][2] = CONNECTING

\* C20: a close event that arrives while a reconnect timer is pending changes
\* neither status nor reconnectDelay nor the pending timer, and schedules
\* nothing; it stops the keep-alive and nothing else of the session changes.
C20_CloseIgnoredWhileTimerPending ==
  [][(hist'.op = "close" /\ reconnectTimeoutId # Null) =>
       /\ currentStatus' = currentStatus
       /\ currentReconnectDelay' = currentReconnectDelay
       /\ reconnectTimeoutId' = reconnectTimeoutId /\ timeouts' = timeouts
       /\ hist'.sched = NoSched /\ hist'.changes = <<>>
       /\ pingIntervalId' = Null /\ intervals' = intervals \ {pingIntervalId}
       /\ UNCHANGED <<socket, explicitClose, currentJwtToken>>]_vars

\* The close event of a transport that failed while the session was waiting
\* for the reconnect timer: the timer and the doubled delay are as they were.
C20_Witness ==
  /\ hist.op = "close"
  /\ hist.pre.timer
  /\ hist.pre.status = RECONNECTING
  /\ currentStatus = RECONNECTING
  /\ timeouts = {reconnectTimeoutId}
  /\ currentReconnectDelay = hist.pre.delay
  /\ currentReconnectDelay > RECONNECT_INITIAL_DELAY_MS

\* ---------------------------------------------------- bridge properties
Types(out) == [i \in 1..Len(out) |-> out[i].type]

\* types[from..to] are all stream_chunk
AllChunks(types, from, to) == \A i \in from..to : types[i] = "stream_chunk"

IsBuffered(types) == types = <<"http_response">>
IsErrorOnly(types) == types = <<"error">>
IsStream(types) ==
  /\ Len(types) >= 2
  /\ types[1] = "stream_start"
  /\ types[Len(types)] = "stream_end"
  /\ AllChunks(types, 2, Len(types) - 1)
\* a stream that a failure ended: stream_start, chunks, error
IsBrokenStream(types) ==
  /\ Len(types) >= 2
  /\ types[1] = "stream_start"
  /\ types[Len(types)] = "error"
  /\ AllChunks(types, 2, Len(types) - 1)
\* the messages of a stream that has not ended
IsOpenStream(types) ==
  /\ Len(types) >= 1
  /\ types[1] = "stream_start"
  /\ AllChunks(types, 2, Len(types))

\* C4 as claimed: the messages of a finished command are a single
\* http_response, or stream_start, stream_chunk*, stream_end, or a single error.
C4_OneOfThreeShapes ==
  \A c \in CmdIds :
    cmds[c].pc = "done" =>
      LET types == Types(cmds[c].out)
      IN IsBuffered(types) \/ IsStream(types) \/ IsErrorOnly(types)

\* C4, amended: the messages of a finished command are a single
\* http_response, or stream_start, stream_chunk*, stream_end, or a single
\* error, or stream_start, stream_chunk*, error; a command that has not
\* finished has emitted no terminal message.
C4_ExactlyOneResultSequence ==
  \A c \in CmdIds :
    LET types == Types(cmds[c].out)
    IN /\ cmds[c].pc = "done" =>
            \/ IsBuffered(types)
            \/ IsStream(types)
            \/ IsErrorOnly(types)
            \/ IsBrokenStream(types)
       /\ cmds[c].pc \in {"fetch", "text"} => types = <<>>
       /\ cmds[c].pc = "read" => IsOpenStream(types)

\* A finished command whose stream a failure ended after two chunks.
C4_Witness ==
  \E c \in CmdIds :
    /\ cmds[c].pc = "done"
    /\ Types(cmds[c].out) = <<"stream_start", "stream_chunk", "stream_chunk", "error">>

\* C5 as claimed: a command in whose execution a network failure occurred has
\* emitted exactly one error message and no other message.
C5_FailureEmitsOnlyError ==
  \A c \in CmdIds :
    cmds[c].failedAt # "none" => IsErrorOnly(Types(cmds[c].out))

\* C5, amended: a failure before the response headers arrive or while a
\* buffered body is read gives exactly one error message and no other
\* message; a failure while a streamed body is read gives exactly one error
\* message, the last of the id, after the stream_start and one stream_chunk
\* per chunk read, and no stream_end; without a failure no error is emitted.
C5_FailureEmitsOneError ==
  \A c \in CmdIds :
    LET types == Types(cmds[c].out)
    IN /\ cmds[c].failedAt \in {"fetch", "text"} => IsErrorOnly(types)
       /\ cmds[c].failedAt = "read" =>
            /\ IsBrokenStream(types)
            /\ Len(types) = Len(cmds[c].reads) + 2
       /\ cmds[c].failedAt = "none" => \A i \in 1..Len(types) : types[i] # "error"

\* A failure while the streamed body was read, after one chunk.
C5_Witness ==
  \E c \in CmdIds :
    /\ cmds[c].failedAt = "read"
    /\ Len(cmds[c].reads) = 1
    /\ Len(cmds[c].out) = 3

RECURSIVE Flatten(_)
Flatten(ss) == IF ss = <<>> THEN <<>> ELSE Head(ss) \o Flatten(Tail(ss))

IsChunk(m) == m.type = "stream_chunk"
\* the payloads of the stream_chunk messages, in the order emitted
ChunkData(out) ==
  LET cks == SelectSeq(out, IsChunk) IN [i \in 1..Len(cks) |-> cks[i].data]

\* The k-th stream_chunk carries the text of the k-th chunk read: the first k
\* payloads together are the decoding of the first k chunks together.
ChunksFollowReads(cmd) ==
  LET data == ChunkData(cmd.out)
  IN /\ Len(data) >= Len(cmd.reads)
     /\ \A k \in 1..Len(cmd.reads) :
          Flatten(SubSeq(data, 1, k)) =
            decode(FALSE, Flatten(SubSeq(cmd.reads, 1, k))).text

Streamed(cmd) == cmd.out # <<>> /\ cmd.out[1].type = "stream_start"
Completed(cmd) == cmd.pc = "done" /\ cmd.failedAt = "none"

C13_ErrorResponseIsHttpError ==
  \A c \in CmdIds :
    cmds[c].status >= 400 =>
      /\ \A i \in 1..Len(cmds[c].out) :
           cmds[c].out[i].type \notin {"http_response", "stream_start"}
      /\ cmds[c].pc = "done" =>
           \E i \in 1..Len(cmds[c].out) :
             cmds[c].out[i].type = "error" /\ cmds[c].out[i].data = "HTTP_ERROR"

\* The command is one the pre-processing rule is about: a GET whose path ends
\* in /v1beta/models, with or without a trailing slash, and whose query has a
\* key parameter.
CarriesKeyToModels(cmd) ==
  /\ cmd.method = "GET"
  /\ \/ pathnameEndsWith(cmd.url.path, <<"v1beta", "models">>)
     \/ pathnameEndsWith(cmd.url.path, <<"v1beta", "models", "">>)
  /\ \E i \in 1..Len(cmd.url.query) : cmd.url.query[i].name = "key"

\* C16: for a GET whose path ends in /v1beta/models (with or without a
\* trailing slash) and that has a key parameter, the url fetched is the given
\* url without the key parameter and with every other parameter, in order;
\* for every other command the url fetched is the given url; no message sent
\* back carries a url.
C16_KeyStrippedForModels ==
  \A c \in CmdIds :
    cmds[c].pc # "free" =>
      /\ IF CarriesKeyToModels(cmds[c])
         THEN /\ cmds[c].fetched.abs = cmds[c].url.abs
              /\ cmds[c].fetched.path = cmds[c].url.path
              /\ searchParams(cmds[c].fetched.query) =
                   SelectSeq(searchParams(cmds[c].url.query), IsNotKey)
         ELSE cmds[c].fetched = cmds[c].url
      /\ \A i \in 1..Len(cmds[c].out) :
           IF cmds[c].out[i].type = "error"
           THEN cmds[c].out[i].data = "FETCH_ERROR"
           ELSE cmds[c].out[i].data \in HttpStatuses

\* A reconnect timer is pending: the session holds its id, or the browser has
\* a timeout of scheduleReconnect that has not fired.
TimerPending == reconnectTimeoutId # Null \/ timeouts # {}

\* C24: whenever a reconnect timer is pending, a token is stored and
\* explicitClose is false; so the timer's callback finds the token, calls
\* connect with it (the token stays stored) and never takes the branch that
\* sets status Idle.
C24_TimerImpliesToken ==
  /\ [](TimerPending => currentJwtToken # NoToken /\ ~explicitClose)
  /\ [][hist'.op = "timer" =>
         /\ currentJwtToken # NoToken /\ ~explicitClose
         /\ currentJwtToken' = currentJwtToken
         /\ currentStatus' # IDLE
         /\ \A i \in 1..Len(hist'.changes) : hist'.changes[i][2] # IDLE]_vars

\* The timer set after a lost connection has fired and its callback has called
\* connect with the stored token: a new transport is connecting.
C24_Witness ==
  /\ hist.op = "timer"
  /\ hist.pre.timer
  /\ hist.pre.status = RECONNECTING
  /\ currentStatus = CONNECTING
  /\ currentJwtToken = "jwtB"
  /\ socket # Null /\ readyState[socket] = WS_CONNECTING
  /\ ~TimerPending

\* C22: whenever status is Connected, `socket` refers to a transport that has
\* opened and has not closed (it is open, or in the closing handshake whose
\* close event is still to come): status is never Connected with `socket`
\* null or referring to a closed transport.
C22_ConnectedHasOpenSocket ==
  currentStatus = CONNECTED =>
    socket # Null /\ readyState[socket] \in {WS_OPEN, WS_CLOSING}

\* The invocation is suspended at an await.
InFlight(cmd) == cmd.pc \in {"fetch", "read", "text"}
\* The message types that end a command's result.
FinalTypes == {"stream_end", "http_response", "error"}
\* `socket` does not refer to an open transport.
NoOpenTransport == socket = Null \/ readyState[socket] # WS_OPEN
\* The messages the step from `old` to `new` passed to sendToServer.
Emitted(old, new) ==
  IF new.pc = "fetch" THEN new.out ELSE SubSeq(new.out, Len(old.out) + 1, Len(new.out))

\* C21: a close event or disconnect() changes nothing of an invocation but the
\* connection it remembers, so the invocation goes on from the await it is at,
\* and when it is done the last message it passed to sendToServer is a final
\* one; a step of an invocation puts on a transport only messages it emits in
\* that very step, and none of them when `socket` is not an open transport:
\* they are dropped, and since no later step sends anything but its own
\* messages (an open event, a connect or a timer sends nothing) they are never
\* delivered, also not after a reconnect.
C21_NotCancelledAndDropped ==
  /\ [][hist'.op \in {"close", "disconnect"} =>
         \A c \in CmdIds : cmds'[c] = [cmds[c] EXCEPT !.conn = cmds'[c].conn]]_vars
  /\ [](\A c \in CmdIds :
          cmds[c].pc = "done" =>
            /\ cmds[c].out # <<>>
            /\ cmds[c].out[Len(cmds[c].out)].type \in FinalTypes)
  /\ [][hist'.op = "bridge" =>
         \A c \in CmdIds :
           cmds'[c] # cmds[c] =>
             /\ cmds'[c].pc # "fetch" =>
                  SubSeq(cmds'[c].out, 1, Len(cmds[c].out)) = cmds[c].out
             /\ Types(Emitted(cmds[c], cmds'[c])) =
                  [i \in 1..Len(hist'.sends) |-> hist'.sends[i].type]
             /\ NoOpenTransport =>
                  \A i \in 1..Len(hist'.sends) : hist'.sends[i].via = "dropped"]_vars
  /\ [][hist'.op # "bridge" => hist'.sends = <<>>]_vars

\* A command streamed its response; the connection it arrived on has closed
\* and the session is connecting again, and the invocation ran on: its
\* stream_end was the last bridge step and was dropped.
C21_Witness ==
  \E c \in CmdIds :
    /\ cmds[c].pc = "done"
    /\ Types(cmds[c].out) = <<"stream_start", "stream_chunk", "stream_end">>
    /\ cmds[c].conn = Null
    /\ hist.op = "bridge"
    /\ hist.sends = << [type |-> "stream_end", via |-> "dropped"] >>
    /\ currentStatus = CONNECTING

\* C23: every message of a command that is put on a transport is put on the
\* connection the command's http_request arrived on: no step of an invocation
\* sends on another connection.
C23_OnlyOnOriginConnection ==
  \A i \in 1..Len(hist.sends) : hist.sends[i].via # "other"

====
